---- MODULE Spec2Model ----
(***************************************************************************)
(* machetli/tools.py: batched, configure_logging, _set_limit, parse and    *)
(* Run.start, modelled as state machines.  A behaviour exercises one of    *)
(* the operations (variable op); each operation has a specification of its *)
(* own (SpecBatched, SpecLogging, SpecParse, SpecRun) and Spec is their    *)
(* union.                                                                  *)
(*                                                                         *)
(* Python's None is the empty tuple <<>>, a present value v is <<v>>.      *)
(***************************************************************************)
EXTENDS Integers, Sequences, FiniteSets, TLC

VARIABLES
    op,          \* the operation this behaviour exercises
    \* ---- batched(iterable, n)
    iterable,    \* the argument sequence
    n,           \* the batch size argument
    it,          \* number of elements the iterator `it` has handed out
    gen,         \* generator state: created, suspended, exhausted, ValueError
    yielded,     \* the tuples yielded so far, in order
    \* ---- the root logger (shared by configure_logging, _set_limit, parse)
    handlers,    \* root_logger.handlers, a list of handler objects
    rootLevel,   \* root_logger.level
    nextId,      \* identity of the next handler object created
    lastCall,    \* the call that changed root_logger.handlers last
    emitted,     \* per stream, writes of the last record logged since then
    exited,      \* the process ended in sys.exit("aborting")
    \* ---- parse(content, pattern, type)
    content, pattern, type, parsed,
    \* ---- Run.start
    self,        \* the Run object's fields
    env,         \* the calling process: its rlimits now and when start() began
    pc,          \* where start() is
    process,     \* the child spawned by Popen
    input_text,  \* start()'s local input_text
    result       \* what start() returned

batchedVars == <<iterable, n, it, gen, yielded>>
loggingVars == <<handlers, rootLevel, nextId, lastCall, emitted, exited>>
parseVars   == <<content, pattern, type, parsed>>
runVars     == <<self, env, pc, process, input_text, result>>
vars        == <<op, batchedVars, loggingVars, parseVars, runVars>>

None == <<>>

Min(a, b) == IF a <= b THEN a ELSE b

RECURSIVE Flatten(_)
Flatten(ss) == IF ss = <<>> THEN <<>> ELSE Head(ss) \o Flatten(Tail(ss))

\* All sequences over S of length at most k.
SeqsUpTo(S, k) == UNION {[1..m -> S] : m \in 0..k}

(***************************************************************************)
(* The root logger: what configure_logging (tools.py 78-122) builds and    *)
(* what a logging.<level>(msg) call of the logging module does with it.    *)
(***************************************************************************)
DEBUG == 10
INFO == 20
WARNING == 30
ERROR == 40
CRITICAL == 50
MaxConfigCalls == 3    \* configure_logging calls in one behaviour
MaxOtherHandlers == 2  \* handlers other code adds in one behaviour

Handler(kind, id) == [kind |-> kind, id |-> id]

\* list.remove(x): drops the first element equal to x.
RECURSIVE ListRemove(_, _)
ListRemove(l, x) ==
    IF l = <<>> THEN <<>>
    ELSE IF Head(l) = x THEN Tail(l)
    ELSE <<Head(l)>> \o ListRemove(Tail(l), x)

\* lines 89-90: `for handler in root_logger.handlers: removeHandler(handler)`.
\* The for loop walks the list by index while removeHandler shrinks the same
\* list: i is the number of elements the loop has visited.
RECURSIVE RemoveLoop(_, _)
RemoveLoop(l, i) ==
    IF i >= Len(l) THEN l
    ELSE RemoveLoop(ListRemove(l, l[i + 1]), i + 1)

remove_handlers(l) == RemoveLoop(l, 0)

\* lines 112-121: the two handlers made by the call are appended.
InstalledHandlers(hs, id) ==
    remove_handlers(hs) \o <<Handler("stdout", id), Handler("abort", id + 1)>>

\* A record of level lv passes handler h's filter (lines 102-108); handlers
\* made elsewhere carry no filter.
Accepts(h, lv) ==
    CASE h.kind = "stdout" -> lv <= WARNING
      [] h.kind = "abort"  -> lv > WARNING
      [] OTHER             -> TRUE

Stream(h) == IF h.kind = "stdout" THEN "stdout" ELSE "stderr"

NoOutput == [stdout |-> 0, stderr |-> 0]

\* Logger.callHandlers on a record of level lv: the handlers are called in
\* list order; ErrorAbortHandler.emit (lines 97-100) writes the record and
\* then raises SystemExit for a critical one, so later handlers are not called.
RECURSIVE CallHandlers(_, _, _)
CallHandlers(l, lv, acc) ==
    IF l = <<>> THEN [emitted |-> acc, exit |-> FALSE]
    ELSE LET h == Head(l)
             acc2 == IF Accepts(h, lv)
                     THEN [acc EXCEPT ![Stream(h)] = @ + 1] ELSE acc
         IN IF h.kind = "abort" /\ Accepts(h, lv) /\ lv >= CRITICAL
            THEN [emitted |-> acc2, exit |-> TRUE]
            ELSE CallHandlers(Tail(l), lv, acc2)

\* logging.debug/info/.../critical(msg) of the logging module: with no handler
\* on the root logger basicConfig() installs a default stderr handler first;
\* the record is handled when the root logger's level lets it through.
LogCall(hs, level, id, lv) ==
    LET hs2 == IF hs = <<>> THEN <<Handler("default", id)>> ELSE hs
        out == IF lv >= level THEN CallHandlers(hs2, lv, NoOutput)
               ELSE [emitted |-> NoOutput, exit |-> FALSE]
    IN [handlers |-> hs2, emitted |-> out.emitted, exit |-> out.exit]

\* The logger a caller of parse or Run.start may have: untouched, or set up by
\* one configure_logging() call.
LoggingSetups ==
    { [handlers |-> <<>>, rootLevel |-> WARNING, nextId |-> 1],
      [handlers |-> InstalledHandlers(<<>>, 1), rootLevel |-> INFO, nextId |-> 3] }

(***************************************************************************)
(* batched(iterable, n): tools.py 23-38.  A generator function: calling it *)
(* runs no code; each next() runs the body up to the next yield.           *)
(***************************************************************************)
MaxSeqLen == 4
MinN == 2      \* n ranges over -MinN .. MaxN
MaxN == 3
Elems == {"A", "B"}

\* line 34: the argument check.
n_too_small_off_by_one(k) == k < 0
n_too_small(k) == k < 1

\* line 37: tuple(itertools.islice(it, n)) with `it` having handed out pos
\* elements: the next n elements, fewer when the input runs out.
islice_drops_last(s, pos, k) == SubSeq(s, pos + 1, Min(pos + k, Len(s) - 1))
islice(s, pos, k) == SubSeq(s, pos + 1, Min(pos + k, Len(s)))

(***************************************************************************)
(* parse(content, pattern, type): tools.py 179-215.                        *)
(*                                                                         *)
(* A text is a sequence of characters.  A pattern is a sequence of items,  *)
(* each an atom ("a": that letter, "d": \d) with a greedy quantifier q     *)
(* ("1": exactly one, "+", "*") and grp saying how it is parenthesised:    *)
(* "none"; "cap", a capture group around the quantified atom; "opt", a     *)
(* capture group around the atom that is itself optional and so may take   *)
(* no part in a match.                                                     *)
(***************************************************************************)
MaxTextLen == 3
Digits == {"1", "2"}
Chars == {"a"} \cup Digits

Item(atom, q, grp) == [atom |-> atom, q |-> q, grp |-> grp]

Patterns ==
    { <<Item("a", "1", "none"), Item("d", "+", "cap")>>,    \* a(\d+)
      <<Item("a", "1", "none"), Item("d", "+", "none")>>,   \* a\d+
      <<Item("d", "1", "none")>>,                           \* \d
      <<Item("d", "+", "cap")>>,                            \* (\d+)
      <<Item("a", "+", "cap")>>,                            \* (a+)
      <<Item("d", "*", "cap"), Item("a", "1", "none")>>,    \* (\d*)a
      <<Item("a", "1", "cap"), Item("d", "+", "cap")>>,     \* (a)(\d+)
      <<Item("a", "1", "opt"), Item("d", "1", "none")>> }   \* (a)?\d

Types == {"int", "str"}

AtomMatches(atom, ch) == IF atom = "d" THEN ch \in Digits ELSE ch = atom

\* How many characters of text from offset pos on match the atom in a row.
RECURSIVE RunLength(_, _, _)
RunLength(atom, text, pos) ==
    IF pos < Len(text) /\ AtomMatches(atom, text[pos + 1])
    THEN 1 + RunLength(atom, text, pos + 1) ELSE 0

\* regex.groups: the number of capture groups of the pattern.
Groups(items) == Cardinality({i \in 1..Len(items) : items[i].grp # "none"})

IsGroup1(items, i) ==
    items[i].grp # "none" /\ \A j \in 1..(i - 1) : items[j].grp = "none"

\* The regex engine at offset pos: items i.. are matched by backtracking, a
\* greedy item taking the longest run first.  g1 is what group 1 holds: None
\* while it has taken no part, else <<its text>>.
RECURSIVE MatchHere(_, _, _, _, _)
RECURSIVE TryCount(_, _, _, _, _, _, _)
MatchHere(items, i, text, pos, g1) ==
    IF i > Len(items) THEN [ok |-> TRUE, g1 |-> g1]
    ELSE LET item == items[i]
             run == RunLength(item.atom, text, pos)
             hi == IF item.q = "1" THEN Min(run, 1) ELSE run
             lo == IF item.grp = "opt" \/ item.q = "*" THEN 0 ELSE 1
         IN TryCount(items, i, text, pos, g1, hi, lo)
TryCount(items, i, text, pos, g1, k, lo) ==
    IF k < lo THEN [ok |-> FALSE, g1 |-> g1]
    ELSE LET g1b == IF ~IsGroup1(items, i) THEN g1
                    ELSE IF items[i].grp = "opt" /\ k = 0 THEN None
                    ELSE <<SubSeq(text, pos + 1, pos + k)>>
             r == MatchHere(items, i + 1, text, pos + k, g1b)
         IN IF r.ok THEN r ELSE TryCount(items, i, text, pos, g1, k - 1, lo)

\* line 206, regex.search(content): the match at the leftmost offset that has
\* one.
RECURSIVE SearchFrom(_, _, _)
SearchFrom(items, text, start) ==
    IF start > Len(text) THEN [found |-> FALSE, start |-> start, g1 |-> None]
    ELSE LET r == MatchHere(items, 1, text, start, None)
         IN IF r.ok THEN [found |-> TRUE, start |-> start, g1 |-> r.g1]
            ELSE SearchFrom(items, text, start + 1)

\* regex.match(content) in its place: a match at offset 0 only.
regex_match_at_start(items, text) ==
    LET r == MatchHere(items, 1, text, 0, None)
    IN [found |-> r.ok, start |-> 0, g1 |-> r.g1]
regex_search(items, text) == SearchFrom(items, text, 0)

DigitValue(ch) == IF ch = "1" THEN 1 ELSE 2

RECURSIVE DecimalValue(_)
DecimalValue(t) ==
    IF t = <<>> THEN 0
    ELSE 10 * DecimalValue(SubSeq(t, 1, Len(t) - 1)) + DigitValue(t[Len(t)])

Returned(kind, i, t, crit) == [kind |-> kind, int |-> i, str |-> t, critical |-> crit]

\* line 213, type(value) for value = match.group(1): None when group 1 took
\* no part in the match, else its text.  int() of a text that is not a
\* decimal numeral raises ValueError and int(None) raises TypeError; str()
\* returns the text itself and str(None) is the text "None".
TypeCall(ty, value) ==
    IF ty = "int"
    THEN IF value = None THEN Returned("TypeError", 0, <<>>, FALSE)
         ELSE IF value[1] # <<>> /\ \A i \in 1..Len(value[1]) : value[1][i] \in Digits
         THEN Returned("int", DecimalValue(value[1]), <<>>, FALSE)
         ELSE Returned("ValueError", 0, <<>>, FALSE)
    ELSE IF value = None THEN Returned("str", 0, <<"N", "o", "n", "e">>, FALSE)
         ELSE Returned("str", 0, value[1], FALSE)

\* The call parse(text, items, ty) with the root logger as given: what it
\* returns or raises (out) and the root logger's handlers after it.
\* match.group(1) raises IndexError exactly when the pattern has no group.
parse(text, items, ty, hs, level, id) ==
    LET m == regex_search(items, text) IN
    IF m.found
    THEN IF Groups(items) = 0
         THEN LET r == LogCall(hs, level, id, CRITICAL) IN
              [out |-> IF r.exit THEN Returned("SystemExit", 0, <<>>, TRUE)
                       ELSE Returned("None", 0, <<>>, TRUE),
               handlers |-> r.handlers]
         ELSE [out |-> TypeCall(ty, m.g1), handlers |-> hs]
    ELSE [out |-> Returned("None", 0, <<>>, FALSE),
          handlers |-> LogCall(hs, level, id, DEBUG).handlers]

(***************************************************************************)
(* Run.start: tools.py 266-318, with _set_limit (169-176).                 *)
(*                                                                         *)
(* A resource limit is a pair <<soft, hard>>; RLIM_INFINITY is the value   *)
(* resource.getrlimit reports for "no limit".  The kernel's rules are the  *)
(* unprivileged ones: a limit's soft value may not exceed its hard value   *)
(* and the hard value may not be raised.                                   *)
(***************************************************************************)
RLIM_INFINITY == -1
CPU_PADDING == 5
MaxTimeLimit == 2      \* time_limit ranges over None, -1, 1..MaxTimeLimit
MaxMemoryLimit == 2    \* memory_limit ranges over None, 1..MaxMemoryLimit
SmallCpuHard == 6      \* RLIMIT_CPU seconds of a parent that is itself limited
SmallAsHardMiB == 1    \* RLIMIT_AS of such a parent, in MiB

\* CPU seconds after which the model stops counting a child's CPU time.
CpuCap == MaxTimeLimit + CPU_PADDING + 1

LimLeq(a, b) == b = RLIM_INFINITY \/ (a # RLIM_INFINITY /\ a <= b)

\* line 171, resource.setrlimit(kind, (soft, hard)) with cur the limit in
\* force: whether the kernel accepts the pair.
SetrlimitOk(cur, soft, hard) == LimLeq(soft, hard) /\ LimLeq(hard, cur[2])

\* line 282: the CPU limit pair for time_limit t.
cpu_limits_no_padding(t) == <<t, t>>
cpu_limits(t) == <<t, t + CPU_PADDING>>

\* lines 286-287: memory_limit in MiB converted to bytes.
mem_bytes_kib(m) == m * 1024
mem_bytes(m) == m * 1024 * 1024

Unlimited == <<RLIM_INFINITY, RLIM_INFINITY>>

\* The limits start() may find in force in the process that calls it.
ParentLimits ==
    { [RLIMIT_CPU |-> Unlimited, RLIMIT_AS |-> Unlimited, RLIMIT_CORE |-> Unlimited],
      [RLIMIT_CPU |-> <<SmallCpuHard, SmallCpuHard>>, RLIMIT_AS |-> Unlimited,
       RLIMIT_CORE |-> <<0, RLIM_INFINITY>>],
      [RLIMIT_CPU |-> Unlimited,
       RLIMIT_AS |-> <<mem_bytes(SmallAsHardMiB), mem_bytes(SmallAsHardMiB)>>,
       RLIMIT_CORE |-> Unlimited] }

\* What the command does when run: "missing" cannot be executed; "spin"
\* computes forever; "spin_xcpu" does too and handles SIGXCPU; "cat" copies
\* its standard input to its standard output up to end of input; "fail"
\* exits at once with status 1.
Commands == {"missing", "spin", "spin_xcpu", "cat", "fail"}

\* The files input_file may name, as bytes; "missing.txt" does not exist.
FileNames == {"in.txt", "missing.txt"}
FileBytes(name) == <<"x", "\r", "\n", "y", "\r">>
FileExists(name) == name # "missing.txt"

\* lines 301-302: open(path, "r").read(): text mode with universal newlines
\* turns "\r\n" and a lone "\r" into "\n".
RECURSIVE TextRead(_)
TextRead(b) ==
    IF b = <<>> THEN <<>>
    ELSE IF Head(b) = "\r"
         THEN IF Len(b) >= 2 /\ b[2] = "\n"
              THEN <<"\n">> \o TextRead(SubSeq(b, 3, Len(b)))
              ELSE <<"\n">> \o TextRead(Tail(b))
    ELSE <<Head(b)>> \o TextRead(Tail(b))

\* The child between fork and exec: its limits (inherited from the parent),
\* the kinds whose limit could not be set, whether preexec_fn ended in
\* SystemExit, its copy of the root logger's handlers and what it has written
\* to its standard error.
ChildContext(limits, hs, level) ==
    [limits |-> limits, failed |-> {}, abort |-> FALSE, handlers |-> hs,
     level |-> level, stderr |-> <<>>]

\* lines 169-176.
set_limit(ctx, kind, soft_limit, hard_limit) ==
    IF SetrlimitOk(ctx.limits[kind], soft_limit, hard_limit)
    THEN [ctx EXCEPT !.limits[kind] = <<soft_limit, hard_limit>>]
    ELSE LET r == LogCall(ctx.handlers, ctx.level, 0, CRITICAL) IN
         [ctx EXCEPT !.failed = @ \cup {kind},
                     !.abort = r.exit,
                     !.handlers = r.handlers,
                     !.stderr = IF r.emitted.stderr > 0
                                THEN Append(@, "CRITICAL") ELSE @]

\* lines 277-288, run by Popen in the child before the command is executed;
\* a SystemExit raised on the way ends it there.
prepare_call(ctx, time_limit, memory_limit) ==
    LET c1 == IF time_limit # None
              THEN set_limit(ctx, "RLIMIT_CPU", cpu_limits(time_limit[1])[1],
                             cpu_limits(time_limit[1])[2])
              ELSE ctx
        c2 == IF c1.abort THEN c1
              ELSE IF memory_limit # None
              THEN set_limit(c1, "RLIMIT_AS", mem_bytes(memory_limit[1]),
                             c1.limits.RLIMIT_AS[2])
              ELSE c1
    IN IF c2.abort THEN c2 ELSE set_limit(c2, "RLIMIT_CORE", 0, 0)

\* line 292: the stdin argument of Popen.  None leaves the child with the
\* standard input of the calling process.
child_stdin(input_file) == IF input_file # None THEN "pipe" ELSE "inherited"

NoProcess ==
    [state |-> "none", limits |-> [RLIMIT_CPU |-> Unlimited, RLIMIT_AS |-> Unlimited,
                                  RLIMIT_CORE |-> Unlimited],
     failed |-> {}, stdin |-> "none", stdin_data |-> None, stdin_closed |-> FALSE,
     cpu |-> 0, xcpu_at |-> None, returncode |-> None,
     stdout |-> <<>>, stderr |-> <<>>]

NoRun == [command |-> "missing", time_limit |-> None, memory_limit |-> None,
          input_file |-> None]

NoEnv == [limits |-> [RLIMIT_CPU |-> Unlimited, RLIMIT_AS |-> Unlimited,
                      RLIMIT_CORE |-> Unlimited],
          limits0 |-> [RLIMIT_CPU |-> Unlimited, RLIMIT_AS |-> Unlimited,
                       RLIMIT_CORE |-> Unlimited]]

(***************************************************************************)
(* Values of the variables an operation does not use.                      *)
(***************************************************************************)
NoParsed == Returned("idle", 0, <<>>, FALSE)

IdleBatched ==
    /\ iterable = <<>> /\ n = 1 /\ it = 0 /\ gen = "idle" /\ yielded = <<>>

IdleLogging ==
    /\ handlers = <<>> /\ rootLevel = WARNING /\ nextId = 1
    /\ lastCall = "none" /\ emitted = NoOutput /\ exited = FALSE

IdleParse ==
    /\ content = <<>> /\ pattern = <<>> /\ type = "int" /\ parsed = NoParsed

IdleRun ==
    /\ self = NoRun /\ env = NoEnv /\ pc = "idle" /\ process = NoProcess
    /\ input_text = None /\ result = None

(***************************************************************************)
(* batched: the generator.                                                 *)
(***************************************************************************)
InitBatched ==
    /\ op = "batched"
    /\ IdleLogging /\ IdleParse /\ IdleRun
    /\ iterable \in SeqsUpTo(Elems, MaxSeqLen)
    /\ n \in (0 - MinN)..MaxN
    /\ it = 0
    /\ gen = "created"
    /\ yielded = <<>>

\* next(g) on the generator g = batched(iterable, n).
batched_next ==
    /\ op = "batched"
    /\ gen \in {"created", "suspended"}
    /\ \/ /\ gen = "created"
          /\ n_too_small(n)                       \* raise ValueError
          /\ gen' = "ValueError"
          /\ UNCHANGED <<it, yielded>>
       \/ /\ ~(gen = "created" /\ n_too_small(n))
          /\ LET batch == islice(iterable, it, n) IN
             \/ /\ batch # <<>>                   \* yield batch
                /\ it' = it + Len(batch)
                /\ yielded' = Append(yielded, batch)
                /\ gen' = "suspended"
             \/ /\ batch = <<>>                   \* the loop ends
                /\ gen' = "exhausted"
                /\ UNCHANGED <<it, yielded>>
    /\ UNCHANGED <<op, iterable, n, loggingVars, parseVars, runVars>>

NextBatched == batched_next

SpecBatched == InitBatched /\ [][NextBatched]_vars

(***************************************************************************)
(* configure_logging and the code around it that uses the root logger.     *)
(***************************************************************************)
InitLogging ==
    /\ op = "logging"
    /\ IdleBatched /\ IdleParse /\ IdleRun
    /\ handlers = <<>>
    /\ rootLevel = WARNING
    /\ nextId = 1
    /\ lastCall = "none"
    /\ emitted = NoOutput
    /\ exited = FALSE

configure_logging(level) ==
    /\ op = "logging" /\ ~exited
    /\ nextId <= 2 * MaxConfigCalls + MaxOtherHandlers
    /\ handlers' = InstalledHandlers(handlers, nextId)
    /\ rootLevel' = level
    /\ nextId' = nextId + 2
    /\ lastCall' = "configure_logging"
    /\ emitted' = NoOutput
    /\ UNCHANGED <<op, exited, batchedVars, parseVars, runVars>>

\* Other code logs a record of level lv through the logging module.
LogMessage(lv) ==
    /\ op = "logging" /\ ~exited
    /\ LET r == LogCall(handlers, rootLevel, nextId, lv) IN
       /\ handlers' = r.handlers
       /\ nextId' = IF handlers = <<>> THEN nextId + 1 ELSE nextId
       /\ emitted' = r.emitted
       /\ exited' = r.exit
    /\ lastCall' = IF handlers = <<>> THEN "basicConfig" ELSE lastCall
    /\ UNCHANGED <<op, rootLevel, batchedVars, parseVars, runVars>>

\* Other code attaches a handler of its own to the root logger.
AddHandler ==
    /\ op = "logging" /\ ~exited
    /\ Cardinality({i \in 1..Len(handlers) : handlers[i].kind = "other"})
         < MaxOtherHandlers
    /\ nextId <= 2 * MaxConfigCalls + MaxOtherHandlers
    /\ handlers' = Append(handlers, Handler("other", nextId))
    /\ nextId' = nextId + 1
    /\ lastCall' = "addHandler"
    /\ emitted' = NoOutput
    /\ UNCHANGED <<op, rootLevel, exited, batchedVars, parseVars, runVars>>

NextLogging ==
    \/ \E level \in {DEBUG, INFO} : configure_logging(level)
    \/ \E lv \in {INFO, WARNING, ERROR, CRITICAL} : LogMessage(lv)
    \/ AddHandler

SpecLogging == InitLogging /\ [][NextLogging]_vars

(***************************************************************************)
(* parse: one call.                                                        *)
(***************************************************************************)
InitParse ==
    /\ op = "parse"
    /\ IdleBatched /\ IdleRun
    /\ \E setup \in LoggingSetups :
          /\ handlers = setup.handlers
          /\ rootLevel = setup.rootLevel
          /\ nextId = setup.nextId
    /\ lastCall = "none" /\ emitted = NoOutput /\ exited = FALSE
    /\ content \in SeqsUpTo(Chars, MaxTextLen)
    /\ pattern \in Patterns
    /\ type \in Types
    /\ parsed = NoParsed

parse_call ==
    /\ op = "parse"
    /\ parsed.kind = "idle"
    /\ LET r == parse(content, pattern, type, handlers, rootLevel, nextId) IN
       /\ parsed' = r.out
       /\ handlers' = r.handlers
       /\ nextId' = IF handlers = <<>> THEN nextId + 1 ELSE nextId
       /\ lastCall' = IF handlers = <<>> THEN "basicConfig" ELSE lastCall
       /\ exited' = (r.out.kind = "SystemExit")
    /\ UNCHANGED <<op, rootLevel, emitted, content, pattern, type,
                   batchedVars, runVars>>

NextParse == parse_call

SpecParse == InitParse /\ [][NextParse]_vars

(***************************************************************************)
(* Run.start: the calling process (Start...) and the child it spawns       *)
(* (Child...).  pc is where start() is: "start", "spawned" (Popen has      *)
(* returned), "communicate" (input_text is set), "wait" (communicate has   *)
(* written the input and waits for the child), "returned", or the          *)
(* exception start() ended with.                                           *)
(***************************************************************************)
Raised == {"SubprocessError", "FileNotFoundError"}

InitRun ==
    /\ op = "run"
    /\ IdleBatched /\ IdleParse
    /\ \E setup \in LoggingSetups :
          /\ handlers = setup.handlers
          /\ rootLevel = setup.rootLevel
          /\ nextId = setup.nextId
    /\ lastCall = "none" /\ emitted = NoOutput /\ exited = FALSE
    /\ self \in [command : Commands,
                 time_limit : {None} \cup {<<t>> : t \in {-1} \cup 1..MaxTimeLimit},
                 memory_limit : {None} \cup {<<m>> : m \in 1..MaxMemoryLimit},
                 input_file : {None} \cup {<<f>> : f \in FileNames}]
    /\ \E limits \in ParentLimits :
          env = [limits |-> limits, limits0 |-> limits]
    /\ pc = "start"
    /\ process = NoProcess
    /\ input_text = None
    /\ result = None

\* lines 290-298: logging.debug and Popen.  Popen returns once the child has
\* run preexec_fn and executed the command; when either fails the child is
\* gone and Popen raises.  preexec_fn runs in the child: the limits of the
\* calling process stay as they are.
StartPopen ==
    /\ op = "run" /\ pc = "start"
    /\ LET lg == LogCall(handlers, rootLevel, nextId, DEBUG)
           ctx == prepare_call(ChildContext(env.limits, lg.handlers, rootLevel),
                               self.time_limit, self.memory_limit)
           child == [NoProcess EXCEPT !.limits = ctx.limits,
                                      !.failed = ctx.failed,
                                      !.stderr = ctx.stderr]
       IN /\ handlers' = lg.handlers
          /\ nextId' = IF handlers = <<>> THEN nextId + 1 ELSE nextId
          /\ lastCall' = IF handlers = <<>> THEN "basicConfig" ELSE lastCall
          /\ \/ /\ ctx.abort
                /\ process' = [child EXCEPT !.state = "preexec_failed",
                                            !.returncode = <<255>>]
                /\ pc' = "SubprocessError"
             \/ /\ ~ctx.abort /\ self.command = "missing"
                /\ process' = [child EXCEPT !.state = "exec_failed",
                                            !.returncode = <<255>>]
                /\ pc' = "FileNotFoundError"
             \/ /\ ~ctx.abort /\ self.command # "missing"
                /\ process' = [child EXCEPT !.state = "running",
                                            !.stdin = child_stdin(self.input_file)]
                /\ pc' = "spawned"
    /\ UNCHANGED <<op, rootLevel, emitted, exited, self, env, input_text, result,
                   batchedVars, parseVars>>

\* lines 299-302.
StartReadInput ==
    /\ op = "run" /\ pc = "spawned"
    /\ \/ /\ self.input_file = None
          /\ pc' = "communicate"
          /\ UNCHANGED input_text
       \/ /\ self.input_file # None /\ FileExists(self.input_file[1])
          /\ input_text' = <<TextRead(FileBytes(self.input_file[1]))>>
          /\ pc' = "communicate"
       \/ /\ self.input_file # None /\ ~FileExists(self.input_file[1])
          /\ pc' = "FileNotFoundError"
          /\ UNCHANGED input_text
    /\ UNCHANGED <<op, self, env, process, result,
                   loggingVars, batchedVars, parseVars>>

\* line 304, first half: communicate writes input_text to the child's stdin
\* pipe, if there is one, and closes it.
StartCommunicateWrite ==
    /\ op = "run" /\ pc = "communicate"
    /\ process' = IF process.stdin = "pipe"
                  THEN [process EXCEPT !.stdin_data = input_text,
                                       !.stdin_closed = TRUE]
                  ELSE process
    /\ pc' = "wait"
    /\ UNCHANGED <<op, self, env, input_text, result,
                   loggingVars, batchedVars, parseVars>>

\* lines 304-318, second half: communicate has read both pipes to their end
\* and waited for the child.
StartReturn ==
    /\ op = "run" /\ pc = "wait"
    /\ process.state \in {"exited", "signaled"}
    /\ process' = [process EXCEPT !.state = "reaped"]
    /\ result' = <<process.stdout, process.stderr, process.returncode[1]>>
    /\ pc' = "returned"
    /\ UNCHANGED <<op, self, env, input_text, loggingVars, batchedVars, parseVars>>

\* After start() has raised, the abandoned Popen object is collected and its
\* end of the child's stdin pipe closed.
DropPopen ==
    /\ op = "run" /\ pc \in Raised
    /\ process.state = "running"
    /\ process.stdin = "pipe" /\ ~process.stdin_closed
    /\ process' = [process EXCEPT !.stdin_closed = TRUE]
    /\ UNCHANGED <<op, self, env, pc, input_text, result,
                   loggingVars, batchedVars, parseVars>>

\* A computing child uses another second of CPU time.  The kernel kills it
\* (SIGKILL) when its CPU time reaches the hard limit and sends it SIGXCPU
\* when it reaches the soft limit, which ends a child that does not handle it.
ChildTick ==
    /\ op = "run" /\ process.state = "running"
    /\ self.command \in {"spin", "spin_xcpu"}
    /\ process.cpu < CpuCap
    /\ LET used == process.cpu + 1
           soft == process.limits.RLIMIT_CPU[1]
           hard == process.limits.RLIMIT_CPU[2]
       IN process' =
            IF hard # RLIM_INFINITY /\ used >= hard
            THEN [process EXCEPT !.cpu = used, !.state = "signaled",
                                 !.returncode = <<-9>>]
            ELSE IF soft # RLIM_INFINITY /\ used >= soft
            THEN [process EXCEPT !.cpu = used,
                     !.xcpu_at = IF @ = None THEN <<used>> ELSE @,
                     !.state = IF self.command = "spin" THEN "signaled" ELSE @,
                     !.returncode = IF self.command = "spin" THEN <<-24>> ELSE @]
            ELSE [process EXCEPT !.cpu = used]
    /\ UNCHANGED <<op, self, env, pc, input_text, result,
                   loggingVars, batchedVars, parseVars>>

\* A child that copies its standard input reads to the end of input.  On a
\* pipe that is when the pipe has been closed.  On the standard input of the
\* calling process it is when that input ends, which is not up to start():
\* the step may be taken or never be taken.
ChildCat ==
    /\ op = "run" /\ process.state = "running"
    /\ self.command = "cat"
    /\ \/ process.stdin = "pipe" /\ process.stdin_closed
       \/ process.stdin = "inherited"
    /\ process' = [process EXCEPT
                     !.stdout = IF process.stdin_data = None THEN <<>>
                                ELSE process.stdin_data[1],
                     !.state = "exited",
                     !.returncode = <<0>>]
    /\ UNCHANGED <<op, self, env, pc, input_text, result,
                   loggingVars, batchedVars, parseVars>>

ChildFail ==
    /\ op = "run" /\ process.state = "running"
    /\ self.command = "fail"
    /\ process' = [process EXCEPT !.stderr = Append(@, "failed"),
                                  !.state = "exited",
                                  !.returncode = <<1>>]
    /\ UNCHANGED <<op, self, env, pc, input_text, result,
                   loggingVars, batchedVars, parseVars>>

NextRun ==
    \/ StartPopen
    \/ StartReadInput
    \/ StartCommunicateWrite
    \/ StartReturn
    \/ DropPopen
    \/ ChildTick
    \/ ChildCat
    \/ ChildFail

SpecRun == InitRun /\ [][NextRun]_vars

\* The scheduler runs a process that can run: the calling process goes on
\* with start() and a computing child goes on computing.
FairSpecRun ==
    /\ SpecRun
    /\ WF_vars(StartPopen) /\ WF_vars(StartReadInput)
    /\ WF_vars(StartCommunicateWrite) /\ WF_vars(StartReturn)
    /\ WF_vars(ChildTick)

(***************************************************************************)
(* All operations.                                                         *)
(***************************************************************************)
Init == InitBatched \/ InitLogging \/ InitParse \/ InitRun

Next == NextBatched \/ NextLogging \/ NextParse \/ NextRun

Spec == Init /\ [][Next]_vars

(***************************************************************************)
(* Properties.                                                             *)
(***************************************************************************)

\* C8: for n >= 1 the tuples batched yields, concatenated in order, are the
\* input consumed so far and, once the generator is exhausted, the whole
\* input; every tuple has n elements except possibly the last, which has 1..n;
\* no tuple is empty; the generator yields at most Len(iterable) times and a
\* next() call is never stuck, so it terminates.
C8_BatchedPartitions ==
    (op = "batched" /\ n >= 1) =>
        /\ gen # "ValueError"
        /\ Flatten(yielded) = SubSeq(iterable, 1, it)
        /\ \A i \in 1..Len(yielded) :
              /\ Len(yielded[i]) \in 1..n
              /\ (i < Len(yielded) => Len(yielded[i]) = n)
        /\ (gen = "exhausted" => Flatten(yielded) = iterable)
        /\ Len(yielded) <= it /\ it <= Len(iterable)
        /\ (gen \in {"created", "suspended"} => ENABLED batched_next)

C8_Witness ==
    /\ op = "batched" /\ gen = "exhausted"
    /\ Len(yielded) >= 2
    /\ Len(yielded[Len(yielded)]) < n

\* C9: for n < 1 the generator never yields a tuple and never takes an element
\* from the input, whatever the input; its first next() raises ValueError.
C9_BatchedRejectsSmallN ==
    (op = "batched" /\ n < 1) =>
        /\ gen \in {"created", "ValueError"}
        /\ yielded = <<>>
        /\ it = 0
        /\ (gen = "created" => ENABLED batched_next)

C9_Witness ==
    op = "batched" /\ n = 0 /\ iterable # <<>> /\ gen = "ValueError"

\* C10 as claimed: when configure_logging has returned, the root logger holds
\* exactly the two handlers that call made, and a record logged then is
\* written at most once to each stream.
C10_OnlyTheTwoNewHandlers ==
    (op = "logging" /\ lastCall = "configure_logging") =>
        /\ handlers = <<Handler("stdout", nextId - 2), Handler("abort", nextId - 1)>>
        /\ emitted.stdout <= 1
        /\ emitted.stderr <= 1
\* What it means for a pattern to match a text somewhere, stated without the
\* engine: the items take ks[1], ks[2], ... characters in a row from some
\* offset on, each count allowed by its quantifier and each character
\* matched by its atom.
SplitOK(items, text, start, ks) ==
    LET from(i) == start + Len(Flatten([j \in 1..(i - 1) |-> [x \in 1..ks[j] |-> 0]]))
    IN \A i \in 1..Len(items) :
          /\ from(i) + ks[i] <= Len(text)
          /\ ks[i] >= (IF items[i].grp = "opt" \/ items[i].q = "*" THEN 0 ELSE 1)
          /\ (items[i].q = "1" => ks[i] <= 1)
          /\ \A c \in (from(i) + 1)..(from(i) + ks[i]) :
                AtomMatches(items[i].atom, text[c])

Matches(items, text) ==
    \E start \in 0..Len(text) :
       \E ks \in [1..Len(items) -> 0..Len(text)] : SplitOK(items, text, start, ks)

AbortHandlerInstalled == \E i \in 1..Len(handlers) : handlers[i].kind = "abort"

\* C6 as claimed, in its weakest reading: parse with a pattern without a
\* capture group reports the critical error for every text, whether or not
\* the pattern matches it.
C6_CriticalForEveryText ==
    (op = "parse" /\ parsed.kind # "idle" /\ Groups(pattern) = 0) =>
        parsed.critical

\* C6 as amended: parse with a pattern without a capture group reports the
\* critical error exactly when the pattern matches the text somewhere; the
\* call then ends in SystemExit when the abort-on-critical handler is
\* installed and returns None when it is not.  When the pattern does not
\* match, parse returns None and reports no critical error.  It never
\* returns a value.
C6_CriticalOnlyOnMatch ==
    (op = "parse" /\ parsed.kind # "idle" /\ Groups(pattern) = 0) =>
        /\ parsed.kind \in {"None", "SystemExit"}
        /\ parsed.critical <=> Matches(pattern, content)
        /\ parsed.kind = "SystemExit" <=>
              (Matches(pattern, content) /\ AbortHandlerInstalled)

C6_Witness ==
    /\ op = "parse" /\ Groups(pattern) = 0
    /\ content # <<>> /\ ~Matches(pattern, content)
    /\ parsed.kind = "None" /\ ~parsed.critical

\* C7 as claimed: with a pattern that has a capture group, parse returns None
\* exactly when the pattern matches nowhere; when it matches, the result is
\* type applied to the text of group 1 of the leftmost match, and a failed
\* conversion is an error, never None or a stand-in value.
C7_TypeOfFirstGroupText ==
    (op = "parse" /\ parsed.kind # "idle" /\ Groups(pattern) >= 1) =>
        LET m == regex_search(pattern, content) IN
        /\ parsed.kind = "None" <=> ~Matches(pattern, content)
        /\ (Matches(pattern, content) /\ m.g1 # None) =>
              parsed = TypeCall(type, m.g1)
        /\ (Matches(pattern, content) /\ m.g1 = None) =>
              parsed.kind \in {"ValueError", "TypeError"}
Ended == pc \in Raised \cup {"returned"}

\* The command was executed in the child (Popen succeeded).
Executed == process.state \in {"running", "exited", "signaled", "reaped"}

\* C1 as claimed: once start() has ended, by returning or by raising, the
\* child it spawned is no longer running; and when it has returned, the child
\* had been waited for and the result holds stdout, stderr and the exit code.
C1_NoChildOutlivesStart ==
    (op = "run" /\ Ended) =>
        /\ process.state # "running"
        /\ (pc = "returned" => process.state = "reaped" /\ Len(result) = 3)

\* C2 as claimed: with an input file the child's standard input is a pipe on
\* which it gets exactly the bytes of the file and then end of input; without
\* one the child's standard input is not that of the calling process.
C2_StdinIsTheInputFileOrNothing ==
    (op = "run" /\ Executed) =>
        IF self.input_file # None
        THEN /\ process.stdin = "pipe"
             /\ (process.stdin_data # None =>
                    /\ process.stdin_data[1] = FileBytes(self.input_file[1])
                    /\ process.stdin_closed)
        ELSE process.stdin # "inherited"

\* A computing child of a Run with a time limit whose CPU limit was set.
LimitedSpin ==
    /\ op = "run" /\ Executed
    /\ self.command \in {"spin", "spin_xcpu"}
    /\ self.time_limit # None
    /\ "RLIMIT_CPU" \notin process.failed

C3_Safety ==
    LimitedSpin =>
        LET T == self.time_limit[1] IN
        /\ process.cpu <= T + 5
        /\ (process.state = "running" => process.cpu < T + 5)
        /\ (process.returncode # None => process.cpu >= T)
        /\ (process.cpu >= T <=> process.xcpu_at = <<T>>)
        /\ (process.cpu < T => process.xcpu_at = None)
        /\ (self.command = "spin_xcpu" /\ process.returncode # None =>
               process.cpu = T + 5 /\ process.returncode = <<-9>>)

\* C3: a child that computes without end under a time limit T that was set is
\* never ended by the limit before it has used T seconds of CPU time, gets
\* SIGXCPU at T and is killed at T + 5 at the latest; it is eventually gone
\* and start() eventually ends, by returning whenever the input file, if one
\* is given, can be read.
C3_SpinningChildIsStopped ==
    /\ []C3_Safety
    /\ (LimitedSpin /\ process.state = "running")
          ~> (process.state \in {"signaled", "reaped"} /\ Ended)
    /\ (LimitedSpin /\ process.state = "running"
          /\ (self.input_file = None \/ FileExists(self.input_file[1])))
          ~> (pc = "returned" /\ process.state = "reaped")

C3_Witness ==
    /\ op = "run" /\ pc = "returned"
    /\ self.command = "spin_xcpu" /\ self.time_limit = <<2>>
    /\ "RLIMIT_CPU" \notin process.failed
    /\ process.xcpu_at = <<2>> /\ process.cpu = 7
    /\ result[3] = -9

\* C4: when the command starts in the child with every limit set, its CPU
\* limit is (time_limit, time_limit + 5) if a time limit is given, its
\* address-space limit is (memory_limit MiB in bytes, the hard limit of the
\* calling process) if a memory limit is given, and its core limit is (0, 0)
\* in every case; the limits of the calling process are what they were.
C4_ChildLimits ==
    (op = "run" /\ Executed /\ process.failed = {}) =>
        /\ (self.time_limit # None =>
               process.limits.RLIMIT_CPU
                  = <<self.time_limit[1], self.time_limit[1] + 5>>)
        /\ (self.memory_limit # None =>
               process.limits.RLIMIT_AS
                  = <<self.memory_limit[1] * 1024 * 1024, env.limits0.RLIMIT_AS[2]>>)
        /\ process.limits.RLIMIT_CORE = <<0, 0>>
        /\ env.limits = env.limits0

C4_Witness ==
    /\ op = "run" /\ process.state = "running" /\ process.failed = {}
    /\ self.time_limit = <<1>> /\ self.memory_limit = <<1>>
    /\ env.limits0.RLIMIT_AS[2] # RLIM_INFINITY
    /\ env.limits0.RLIMIT_CORE # <<0, 0>>

\* C5 as claimed: when the CPU limit could not be set, start() never returns
\* the result of a command that ran with no CPU limit in force.
C5_NoResultWithoutCpuLimit ==
    (op = "run" /\ Executed /\ "RLIMIT_CPU" \in process.failed
       /\ process.limits.RLIMIT_CPU = Unlimited)
    => pc # "returned"
====
